---- MODULE Spec2Model ----
(***************************************************************************)
(* A model of the layout / connection core of the Tribal graph editor:     *)
(*   - the connection session (GraphCanvas.connectionMode together with    *)
(*     the ConnectionSystem component's cursor / hover / snap state and    *)
(*     the document listeners its effect registers),                       *)
(*   - the connection geometry (getClosestPointOnNode),                    *)
(*   - the layout functions of utils/graphLayout.ts.                       *)
(* Coordinates are integers.  An optional value is a sequence of length    *)
(* at most one (<<>> is null / undefined); an absent id or handle side is  *)
(* the string "none"; an absent number is 0 where the code tests it with   *)
(* `||`.                                                                   *)
(***************************************************************************)
EXTENDS Integers, Sequences, FiniteSets, TLC

VARIABLES
    graph,            \* GraphEditor's graph state: [nodes, edges]
    connectionMode,   \* GraphCanvas.connectionMode
    cursorPosition,   \* ConnectionSystem state (optional point)
    hoveredNodeId,    \* ConnectionSystem state (id or "none")
    snapPosition,     \* ConnectionSystem state (optional point)
    listeners,        \* the document listeners registered by ConnectionSystem's effect,
                      \* with the hover state their closures captured
    lastOp,           \* history: the handler that ran last
    prevOp,           \* history: the handler that ran before it
    requests,         \* history: connection-requests emitted since the last start
    cancels,          \* history: cancel() calls made by cancel triggers since the last start
    layoutIn,         \* input of a layout call: [nodes, edges, options]
    layoutOut,        \* what the layout call returned
    geomIn,           \* input of a projection: [position, size, point]
    geomOut           \* what the projection returned

sessionVars == <<graph, connectionMode, cursorPosition, hoveredNodeId, snapPosition,
                 listeners, lastOp, prevOp, requests, cancels>>
layoutVars == <<layoutIn, layoutOut>>
geomVars == <<geomIn, geomOut>>
vars == <<graph, connectionMode, cursorPosition, hoveredNodeId, snapPosition,
          listeners, lastOp, prevOp, requests, cancels,
          layoutIn, layoutOut, geomIn, geomOut>>

(***************************************************************************)
(* Bounds of the model.                                                    *)
(***************************************************************************)
\* the session model starts no new session once the graph holds this many edges
MaxGraphEdges == 1
\* the projection is tried on the points (25 i - 50, 25 j - 50), i, j in 0..GridN
GridN == 8
\* the layouts are tried on the graphs of at most MaxNodes nodes and MaxEdges edges
MaxNodes == 4
MaxEdges == 3
\* and with at most MaxIterations ticks of the simulation
MaxIterations == 2
\* isLayoutCluttered is tried on the lists of at most MaxClutterNodes nodes
MaxClutterNodes == 3
MaxCalls == 3
MaxLoopNodes == 3

(***************************************************************************)
(* Small helpers.                                                          *)
(***************************************************************************)
NoId == "none"
Some(v) == <<v>>
IsSome(o) == o # <<>>
Abs(a) == IF a < 0 THEN -a ELSE a
Min2(a, b) == IF a <= b THEN a ELSE b
Max2(a, b) == IF a >= b THEN a ELSE b
Point(px, py) == [x |-> px, y |-> py]
HandleSides == {"top", "right", "bottom", "left"}

(***************************************************************************)
(* ConnectionSystem: geometry.                                             *)
(***************************************************************************)
\* a faulty variant: the chosen edge line is kept, the other coordinate is not
\* clamped to the box
getClosestPointOnNodeNoClamp(nodePosition, nodeSize, targetPoint) ==
    LET nodeLeft == nodePosition.x
        nodeRight == nodePosition.x + nodeSize.width
        nodeTop == nodePosition.y
        nodeBottom == nodePosition.y + nodeSize.height
        distanceToLeft == Abs(targetPoint.x - nodeLeft)
        distanceToRight == Abs(targetPoint.x - nodeRight)
        distanceToTop == Abs(targetPoint.y - nodeTop)
        distanceToBottom == Abs(targetPoint.y - nodeBottom)
        minDist == Min2(Min2(distanceToLeft, distanceToRight),
                        Min2(distanceToTop, distanceToBottom))
    IN  IF minDist = distanceToLeft THEN Point(nodeLeft, targetPoint.y)
        ELSE IF minDist = distanceToRight THEN Point(nodeRight, targetPoint.y)
        ELSE IF minDist = distanceToTop THEN Point(targetPoint.x, nodeTop)
        ELSE Point(targetPoint.x, nodeBottom)

\* the edge line at the smallest distance is chosen (left, right, top, bottom in
\* that priority), then the other coordinate is clamped to the box
getClosestPointOnNode(nodePosition, nodeSize, targetPoint) ==
    LET nodeLeft == nodePosition.x
        nodeRight == nodePosition.x + nodeSize.width
        nodeTop == nodePosition.y
        nodeBottom == nodePosition.y + nodeSize.height
        distanceToLeft == Abs(targetPoint.x - nodeLeft)
        distanceToRight == Abs(targetPoint.x - nodeRight)
        distanceToTop == Abs(targetPoint.y - nodeTop)
        distanceToBottom == Abs(targetPoint.y - nodeBottom)
        minDistance == Min2(Min2(distanceToLeft, distanceToRight),
                            Min2(distanceToTop, distanceToBottom))
    IN  IF minDistance = distanceToLeft
          THEN Point(nodeLeft, Max2(nodeTop, Min2(nodeBottom, targetPoint.y)))
        ELSE IF minDistance = distanceToRight
          THEN Point(nodeRight, Max2(nodeTop, Min2(nodeBottom, targetPoint.y)))
        ELSE IF minDistance = distanceToTop
          THEN Point(Max2(nodeLeft, Min2(nodeRight, targetPoint.x)), nodeTop)
        ELSE Point(Max2(nodeLeft, Min2(nodeRight, targetPoint.x)), nodeBottom)

(***************************************************************************)
(* ConnectionSystem: hover detection (handleMouseMove).                    *)
(* A ReactFlow node is [id, position, sw, sh, mw, mh]: sw, sh are          *)
(* data.node.size (0 when the node has no size), mw, mh are the            *)
(* dimensions ReactFlow measured (node.width, node.height; 0 when not      *)
(* measured yet).                                                          *)
(***************************************************************************)
DefaultNodeWidth == 192
DefaultNodeHeight == 96
padding == 20

\* node.data?.node?.size?.width || node.width || 192, and the same for the height
nodeSizeOf(node) ==
    [width |-> IF node.sw # 0 THEN node.sw
               ELSE IF node.mw # 0 THEN node.mw ELSE DefaultNodeWidth,
     height |-> IF node.sh # 0 THEN node.sh
                ELSE IF node.mh # 0 THEN node.mh ELSE DefaultNodeHeight]

\* a faulty variant: the borders of the padded box are left out
inPaddedBoxStrict(node, flowPosition) ==
    LET nodeSize == nodeSizeOf(node)
        nodeLeft == node.position.x
        nodeRight == node.position.x + nodeSize.width
        nodeTop == node.position.y
        nodeBottom == node.position.y + nodeSize.height
    IN  /\ flowPosition.x > nodeLeft - padding
        /\ flowPosition.x < nodeRight + padding
        /\ flowPosition.y > nodeTop - padding
        /\ flowPosition.y < nodeBottom + padding

\* the test of the loop body: the padded box contains the position, borders included
inPaddedBox(node, flowPosition) ==
    LET nodeSize == nodeSizeOf(node)
        nodeLeft == node.position.x
        nodeRight == node.position.x + nodeSize.width
        nodeTop == node.position.y
        nodeBottom == node.position.y + nodeSize.height
    IN  /\ flowPosition.x >= nodeLeft - padding
        /\ flowPosition.x <= nodeRight + padding
        /\ flowPosition.y >= nodeTop - padding
        /\ flowPosition.y <= nodeBottom + padding

\* the for loop of handleMouseMove from index i on: the first node, the source
\* skipped, whose padded box holds the position, with its snap point
RECURSIVE findHovered(_, _, _, _)
findHovered(nodes, sourceNodeId, flowPosition, i) ==
    IF i > Len(nodes)
      THEN [foundHoveredNode |-> NoId, foundSnapPosition |-> <<>>]
    ELSE IF nodes[i].id = sourceNodeId
      THEN findHovered(nodes, sourceNodeId, flowPosition, i + 1)
    ELSE IF inPaddedBox(nodes[i], flowPosition)
      THEN [foundHoveredNode |-> nodes[i].id,
            foundSnapPosition |->
                Some(getClosestPointOnNode(nodes[i].position, nodeSizeOf(nodes[i]),
                                           flowPosition))]
    ELSE findHovered(nodes, sourceNodeId, flowPosition, i + 1)

(***************************************************************************)
(* GraphCanvas: the connection mode and the edge a completed connection    *)
(* adds.                                                                   *)
(***************************************************************************)
IdleMode ==
    [isActive |-> FALSE, sourceNodeId |-> NoId, sourceHandlePosition |-> "none",
     edgeDirection |-> "directed"]

NoListeners == [registered |-> FALSE, hoveredNodeId |-> NoId, snapPosition |-> <<>>]

\* schema.ts createEdge as completeConnection calls it (no label, the default
\* description as markup); the id, a timestamp, is left out
createEdge(source, target, directed) ==
    [source |-> source, target |-> target, directed |-> directed,
     markup |-> "New connection", metadata |-> <<>>]

\* a faulty variant: the self-loop test is dropped
isSelfLoopNever(sourceNodeId, targetNodeId) == FALSE

\* "Don't create self-loops": connectionMode.sourceNodeId === targetNodeId
isSelfLoop(sourceNodeId, targetNodeId) == sourceNodeId = targetNodeId

\* the edge completeConnection builds: connection points are attached only when
\* both a target position and a source handle are there
newEdgeOf(mode, targetNodeId, targetPosition) ==
    LET newEdge == createEdge(mode.sourceNodeId, targetNodeId,
                              mode.edgeDirection = "directed")
    IN  IF IsSome(targetPosition) /\ mode.sourceHandlePosition # "none"
          THEN [newEdge EXCEPT !.metadata =
                    Some([sourceHandle |-> mode.sourceHandlePosition,
                          targetPosition |-> targetPosition[1]])]
          ELSE newEdge

\* a faulty variant: the effect forgets the hover state when the mode goes inactive
resetEffectKeepsHover ==
    /\ cursorPosition' = <<>>
    /\ UNCHANGED <<hoveredNodeId, snapPosition>>
    /\ listeners' = NoListeners

\* ConnectionSystem's effect when it runs with isActive false: the state is
\* cleared; the cleanup of the previous run has removed the listeners
resetEffect ==
    /\ cursorPosition' = <<>>
    /\ hoveredNodeId' = NoId
    /\ snapPosition' = <<>>
    /\ listeners' = NoListeners

\* cancelConnectionMode, and the render it causes (a keydown, click or mouseup is
\* a discrete event: React renders and runs the effects before the next event)
cancelConnectionMode ==
    /\ connectionMode' = IdleMode
    /\ resetEffect

\* completeConnection(targetNodeId, targetPosition)
completeConnection(targetNodeId, targetPosition) ==
    IF ~connectionMode.isActive \/ connectionMode.sourceNodeId = NoId
      THEN UNCHANGED <<graph, connectionMode, cursorPosition, hoveredNodeId,
                       snapPosition, listeners, requests, cancels>>
    ELSE IF isSelfLoop(connectionMode.sourceNodeId, targetNodeId)
      THEN /\ cancelConnectionMode
           /\ cancels' = cancels + 1
           /\ UNCHANGED <<graph, requests>>
    ELSE /\ graph' = [graph EXCEPT !.edges =
                         Append(graph.edges,
                                newEdgeOf(connectionMode, targetNodeId, targetPosition))]
         /\ cancelConnectionMode
         /\ requests' = requests + 1
         /\ UNCHANGED cancels

(***************************************************************************)
(* The handlers.                                                           *)
(***************************************************************************)
Op(name) == lastOp' = name /\ prevOp' = lastOp

\* the effect of ConnectionSystem when it runs with isActive true: the three
\* listeners are registered, their closures holding the rendered hover state
registerEffect ==
    listeners' = [registered |-> TRUE, hoveredNodeId |-> hoveredNodeId,
                  snapPosition |-> snapPosition]

NodeIds == {graph.nodes[i].id : i \in 1..Len(graph.nodes)}

\* ConnectionHandle's mousedown: startConnectionFromHandle(nodeId, position)
StartFromHandle(sourceNodeId, handlePosition) ==
    /\ Len(graph.edges) < MaxGraphEdges
    /\ connectionMode' = [isActive |-> TRUE, sourceNodeId |-> sourceNodeId,
                          sourceHandlePosition |-> handlePosition,
                          edgeDirection |-> "directed"]
    /\ registerEffect
    /\ requests' = 0 /\ cancels' = 0
    /\ Op("startFromHandle")
    /\ UNCHANGED <<graph, cursorPosition, hoveredNodeId, snapPosition>>

\* the context menu's "start edge" entries: startConnectionMode(contextNode.id, direction)
StartFromMenu(sourceNodeId, direction) ==
    /\ Len(graph.edges) < MaxGraphEdges
    /\ connectionMode' = [isActive |-> TRUE, sourceNodeId |-> sourceNodeId,
                          sourceHandlePosition |-> "none",
                          edgeDirection |-> direction]
    /\ registerEffect
    /\ requests' = 0 /\ cancels' = 0
    /\ Op("startFromMenu")
    /\ UNCHANGED <<graph, cursorPosition, hoveredNodeId, snapPosition>>

\* handleMouseMove, the listener registered while the mode is active
MouseMove(flowPosition) ==
    /\ listeners.registered
    /\ LET found == findHovered(graph.nodes, connectionMode.sourceNodeId, flowPosition, 1)
       IN  /\ cursorPosition' = Some(flowPosition)
           /\ hoveredNodeId' = found.foundHoveredNode
           /\ snapPosition' = found.foundSnapPosition
    /\ Op("mouseMove")
    /\ UNCHANGED <<graph, connectionMode, listeners, requests, cancels>>

\* the render React schedules after a mousemove changed the hover state: the
\* effect's dependencies changed, so its listeners are registered anew
Render ==
    /\ listeners.registered
    /\ \/ listeners.hoveredNodeId # hoveredNodeId
       \/ listeners.snapPosition # snapPosition
    /\ registerEffect
    /\ Op("render")
    /\ UNCHANGED <<graph, connectionMode, cursorPosition, hoveredNodeId, snapPosition,
                   requests, cancels>>

\* handleMouseUp: it reads the hover state its closure captured
MouseUp ==
    /\ listeners.registered
    /\ IF listeners.hoveredNodeId # NoId /\ IsSome(listeners.snapPosition)
         THEN completeConnection(listeners.hoveredNodeId, listeners.snapPosition)
         ELSE UNCHANGED <<graph, connectionMode, cursorPosition, hoveredNodeId,
                          snapPosition, listeners, requests, cancels>>
    /\ Op("mouseUp")

\* onNodeClick: in connection mode the click completes the connection, with no
\* target position; otherwise it selects the node
NodeClick(nodeId) ==
    /\ IF connectionMode.isActive
         THEN completeConnection(nodeId, <<>>)
         ELSE UNCHANGED <<graph, connectionMode, cursorPosition, hoveredNodeId,
                          snapPosition, listeners, requests, cancels>>
    /\ Op("nodeClick")

\* onPaneClick: a click on the empty canvas cancels an active connection mode
PaneClick ==
    /\ IF connectionMode.isActive
         THEN cancelConnectionMode /\ cancels' = cancels + 1
         ELSE UNCHANGED <<connectionMode, cursorPosition, hoveredNodeId,
                          snapPosition, listeners, cancels>>
    /\ Op("paneClick")
    /\ UNCHANGED <<graph, requests>>

\* an Escape keydown reaches the two keydown listeners of the document:
\* ConnectionSystem's handleKeyDown (onCancel) and then GraphCanvas's
\* handleKeyDown, whose closure still holds isActive = true. Both call
\* cancelConnectionMode, unless the render the first call causes is flushed between
\* the two and its effect cleanup has removed the second listener (removed): which
\* of the two happens is left to React's version and root mode, not in src/.
Escape ==
    /\ IF listeners.registered \/ connectionMode.isActive
         THEN cancelConnectionMode
         ELSE UNCHANGED <<connectionMode, cursorPosition, hoveredNodeId,
                          snapPosition, listeners>>
    /\ \E removed \in BOOLEAN :
          cancels' = cancels + (IF listeners.registered THEN 1 ELSE 0)
                             + (IF connectionMode.isActive
                                   /\ ~(listeners.registered /\ removed)
                                  THEN 1 ELSE 0)
    /\ Op("escape")
    /\ UNCHANGED <<graph, requests>>

(***************************************************************************)
(* The scenes and cursor positions the session is run on.                  *)
(***************************************************************************)
FlowNode(id, px, py, sw, sh, mw, mh) ==
    [id |-> id, position |-> Point(px, py), sw |-> sw, sh |-> sh, mw |-> mw, mh |-> mh]

\* A has a size; B has none and is not measured (192 x 96); C has none and is
\* measured 150 x 40.  The padded boxes of B and C overlap for x in 500..512.
Scenes ==
    { << FlowNode("A", 0, 0, 100, 50, 0, 0),
         FlowNode("B", 300, 0, 0, 0, 0, 0),
         FlowNode("C", 520, 0, 0, 0, 150, 40) >>,
      << FlowNode("C", 520, 0, 0, 0, 150, 40),
         FlowNode("B", 300, 0, 0, 0, 0, 0),
         FlowNode("A", 0, 0, 100, 50, 100, 50) >> }

CursorPoints ==
    { Point(50, 25), Point(110, 45), Point(280, -20), Point(279, 50),
      Point(505, 20), Point(700, 20), Point(900, 400) }

\* the handles connections are started from, two of the HandleSides
StartSides == {"right", "top"}

\* an id no node of the graph has: the id of a node that left the graph prop
\* while the context menu opened on it (contextMenu.contextNode) was still shown
StaleNodeId == "Z"

\* the ids startConnectionMode is called with from the context menu
StartIds == NodeIds \cup {StaleNodeId}

SessionInit ==
    /\ graph \in {[nodes |-> ns, edges |-> <<>>] : ns \in Scenes}
    /\ connectionMode = IdleMode
    /\ cursorPosition = <<>>
    /\ hoveredNodeId = NoId
    /\ snapPosition = <<>>
    /\ listeners = NoListeners
    /\ lastOp = "init"
    /\ prevOp = "init"
    /\ requests = 0
    /\ cancels = 0

NoLayout == [nodes |-> <<>>, edges |-> <<>>, options |-> <<>>]
NoGeom == [position |-> Point(0, 0), size |-> [width |-> 0, height |-> 0],
           point |-> Point(0, 0)]

Init ==
    /\ SessionInit
    /\ layoutIn = NoLayout /\ layoutOut = <<>>
    /\ geomIn = NoGeom /\ geomOut = <<>>

Next ==
    \/ \E n \in NodeIds, side \in StartSides :
           StartFromHandle(n, side) /\ UNCHANGED <<layoutVars, geomVars>>
    \/ \E n \in StartIds, direction \in {"directed", "undirected"} :
           StartFromMenu(n, direction) /\ UNCHANGED <<layoutVars, geomVars>>
    \/ \E p \in CursorPoints : MouseMove(p) /\ UNCHANGED <<layoutVars, geomVars>>
    \/ Render /\ UNCHANGED <<layoutVars, geomVars>>
    \/ MouseUp /\ UNCHANGED <<layoutVars, geomVars>>
    \/ \E n \in NodeIds : NodeClick(n) /\ UNCHANGED <<layoutVars, geomVars>>
    \/ PaneClick /\ UNCHANGED <<layoutVars, geomVars>>
    \/ Escape /\ UNCHANGED <<layoutVars, geomVars>>

\* the connection session
Spec == Init /\ [][Next]_vars

(***************************************************************************)
(* utils/graphLayout.ts.                                                   *)
(* A node is [id, label, markup, position, size] (size optional), an edge  *)
(* is [source, target].  Options are a record holding any of the fields of *)
(* LayoutOptions; a strength is kept in tenths.  The widths tried are      *)
(* even, so that (width - totalWidth) / 2 is an integer.                   *)
(***************************************************************************)

(***************************************************************************)
(* graphLayout.ts: isLayoutCluttered.                                      *)
(***************************************************************************)
minDistance == 150

\* a faulty variant: nodes exactly minDistance apart count as too close
tooCloseInclusive(nodeA, nodeB) ==
    LET dx == nodeA.position.x - nodeB.position.x
        dy == nodeA.position.y - nodeB.position.y
    IN  dx * dx + dy * dy <= minDistance * minDistance

\* Math.sqrt(dx * dx + dy * dy) < minDistance; on whole coordinates the square
\* root is below 150 exactly when the sum of squares is below 150 * 150
tooClose(nodeA, nodeB) ==
    LET dx == nodeA.position.x - nodeB.position.x
        dy == nodeA.position.y - nodeB.position.y
    IN  dx * dx + dy * dy < minDistance * minDistance

\* the two nested loops, i over the list and j from i + 1 on
RECURSIVE clutteredFrom(_, _, _)
clutteredFrom(nodes, i, j) ==
    IF i > Len(nodes) THEN FALSE
    ELSE IF j > Len(nodes) THEN clutteredFrom(nodes, i + 1, i + 2)
    ELSE IF tooClose(nodes[i], nodes[j]) THEN TRUE
    ELSE clutteredFrom(nodes, i, j + 1)

isLayoutCluttered(nodes) ==
    IF Len(nodes) < 2 THEN FALSE ELSE clutteredFrom(nodes, 1, 2)

(***************************************************************************)
(* graphLayout.ts: the layouts.                                            *)
(***************************************************************************)
DEFAULT_OPTIONS ==
    [width |-> 1200, height |-> 800, iterations |-> 300, nodeSpacing |-> 100,
     linkDistance |-> 200, linkStrengthTenths |-> 1, repulsionStrength |-> -1000,
     centerStrengthTenths |-> 1]

\* { ...DEFAULT_OPTIONS, ...options }
mergeOptions(options) ==
    [k \in DOMAIN DEFAULT_OPTIONS |->
        IF k \in DOMAIN options THEN options[k] ELSE DEFAULT_OPTIONS[k]]

levelHeight == 250
nodeWidth == 300

idsOf(nodes) == {nodes[i].id : i \in 1..Len(nodes)}

\* the adjacency list of a node: adjacency.get(nodeId) || [], the targets of its
\* outgoing edges in edge order
RECURSIVE adjacencyOf(_, _, _)
adjacencyOf(edges, nodeId, i) ==
    IF i > Len(edges) THEN <<>>
    ELSE IF edges[i].source = nodeId
      THEN <<edges[i].target>> \o adjacencyOf(edges, nodeId, i + 1)
    ELSE adjacencyOf(edges, nodeId, i + 1)

RECURSIVE filterSeq(_, _, _)
\* nodes.filter: the nodes, in order, whose id is in keep
filterSeq(nodes, keep, i) ==
    IF i > Len(nodes) THEN <<>>
    ELSE IF nodes[i].id \in keep
      THEN <<nodes[i]>> \o filterSeq(nodes, keep, i + 1)
    ELSE filterSeq(nodes, keep, i + 1)

\* the root nodes: those no edge targets; the first node when there are none
rootNodesOf(nodes, edges) ==
    LET incomingEdges == {edges[i].target : i \in 1..Len(edges)}
        rootNodes == filterSeq(nodes, idsOf(nodes) \ incomingEdges, 1)
    IN  IF Len(rootNodes) = 0 /\ Len(nodes) > 0 THEN <<nodes[1]>> ELSE rootNodes

RECURSIVE visitChildren(_, _, _, _)
\* a faulty variant: a child is enqueued whether or not it has a level already
visitChildrenUnchecked(children, i, level, st) ==
    IF i > Len(children) THEN st
    ELSE visitChildren(children, i + 1, level,
             [levels |-> [id \in DOMAIN st.levels \cup {children[i]} |->
                             IF id = children[i] THEN level + 1 ELSE st.levels[id]],
              queue |-> Append(st.queue, [nodeId |-> children[i], level |-> level + 1])])

\* a faulty variant: a child is given its parent's level
visitChildrenSameLevel(children, i, level, st) ==
    IF i > Len(children) THEN st
    ELSE IF children[i] \in DOMAIN st.levels
      THEN visitChildren(children, i + 1, level, st)
    ELSE visitChildren(children, i + 1, level,
             [levels |-> [id \in DOMAIN st.levels \cup {children[i]} |->
                             IF id = children[i] THEN level ELSE st.levels[id]],
              queue |-> Append(st.queue, [nodeId |-> children[i], level |-> level])])

\* the inner for loop of the BFS over the children of a dequeued node: a child
\* with no level yet gets level + 1 and is enqueued
visitChildren(children, i, level, st) ==
    IF i > Len(children) THEN st
    ELSE IF children[i] \in DOMAIN st.levels
      THEN visitChildren(children, i + 1, level, st)
    ELSE visitChildren(children, i + 1, level,
             [levels |-> [id \in DOMAIN st.levels \cup {children[i]} |->
                             IF id = children[i] THEN level + 1 ELSE st.levels[id]],
              queue |-> Append(st.queue, [nodeId |-> children[i], level |-> level + 1])])

\* the while loop of the BFS
RECURSIVE bfsLoop(_, _)
bfsLoop(edges, st) ==
    IF Len(st.queue) = 0 THEN st.levels
    ELSE LET head == Head(st.queue)
             children == adjacencyOf(edges, head.nodeId, 1)
         IN  bfsLoop(edges, visitChildren(children, 1, head.level,
                                          [levels |-> st.levels, queue |-> Tail(st.queue)]))

\* the levels map: the roots at level 0, then the BFS
assignLevels(nodes, edges) ==
    LET rootNodes == rootNodesOf(nodes, edges)
    IN  bfsLoop(edges,
                [levels |-> [id \in idsOf(rootNodes) |-> 0],
                 queue |-> [i \in 1..Len(rootNodes) |->
                               [nodeId |-> rootNodes[i].id, level |-> 0]]])

\* a faulty variant: a node the BFS never reached is put one row below the roots
levelOfDefaultOne(levels, id) == IF id \in DOMAIN levels THEN levels[id] ELSE 1

\* levels.get(node.id) || 0
levelOf(levels, id) == IF id \in DOMAIN levels THEN levels[id] ELSE 0

\* the keys of nodesByLevel in insertion order: the levels in the order in which
\* the nodes, taken in input order, first show them
RECURSIVE levelOrder(_, _, _, _)
levelOrder(nodes, levels, i, seen) ==
    IF i > Len(nodes) THEN <<>>
    ELSE LET l == levelOf(levels, nodes[i].id)
         IN  IF l \in seen THEN levelOrder(nodes, levels, i + 1, seen)
             ELSE <<l>> \o levelOrder(nodes, levels, i + 1, seen \cup {l})

\* the nodes of one level in input order
RECURSIVE levelNodesOf(_, _, _, _)
levelNodesOf(nodes, levels, l, i) ==
    IF i > Len(nodes) THEN <<>>
    ELSE IF levelOf(levels, nodes[i].id) = l
      THEN <<nodes[i]>> \o levelNodesOf(nodes, levels, l, i + 1)
    ELSE levelNodesOf(nodes, levels, l, i + 1)

\* a faulty variant: the row starts at x = 0 instead of being centred
placeLevelFromZero(levelNodes, l, opts) ==
    [index \in 1..Len(levelNodes) |->
        [levelNodes[index] EXCEPT
            !.position = Point((index - 1) * nodeWidth, l * levelHeight)]]

\* a faulty variant: every node of a level gets the level's first x
placeLevelSameX(levelNodes, l, opts) ==
    [index \in 1..Len(levelNodes) |->
        [levelNodes[index] EXCEPT
            !.position = Point((opts.width - (Len(levelNodes) - 1) * nodeWidth) \div 2,
                               l * levelHeight)]]

\* a faulty variant: the placed record keeps only the id and the position
placeLevelBare(levelNodes, l, opts) ==
    [index \in 1..Len(levelNodes) |->
        [id |-> levelNodes[index].id,
         position |-> Point(((opts.width - (Len(levelNodes) - 1) * nodeWidth) \div 2)
                                + (index - 1) * nodeWidth,
                            l * levelHeight)]]

\* the placement of one level: y = level * levelHeight, x from startX on in
\* steps of nodeWidth
placeLevel(levelNodes, l, opts) ==
    LET y == l * levelHeight
        totalWidth == (Len(levelNodes) - 1) * nodeWidth
        startX == (opts.width - totalWidth) \div 2
    IN  [index \in 1..Len(levelNodes) |->
            [levelNodes[index] EXCEPT
                !.position = Point(startX + (index - 1) * nodeWidth, y)]]

RECURSIVE placeLevels(_, _, _, _, _)
placeLevels(nodes, levels, order, k, opts) ==
    IF k > Len(order) THEN <<>>
    ELSE placeLevel(levelNodesOf(nodes, levels, order[k], 1), order[k], opts)
            \o placeLevels(nodes, levels, order, k + 1, opts)

applyHierarchicalLayout(nodes, edges, options) ==
    LET opts == mergeOptions(options)
        levels == assignLevels(nodes, edges)
    IN  [nodes |-> placeLevels(nodes, levels, levelOrder(nodes, levels, 1, {}), 1, opts),
         edges |-> edges]

RECURSIVE hasCycle(_, _, _)
RECURSIVE hasCycleNeighbors(_, _, _, _)
\* a faulty variant: no recursion stack, a node seen before counts as a cycle
hasCycleVisitedOnly(edges, nodeId, st) ==
    IF nodeId \in st.visited THEN [result |-> TRUE, st |-> st]
    ELSE hasCycleNeighbors(edges, adjacencyOf(edges, nodeId, 1), 1,
             [visited |-> st.visited \cup {nodeId}, recursionStack |-> st.recursionStack])

\* hasCycle(nodeId) with the two sets it works on, st = [visited, recursionStack];
\* the result comes with the sets as the call leaves them
hasCycle(edges, nodeId, st) ==
    IF nodeId \in st.recursionStack THEN [result |-> TRUE, st |-> st]
    ELSE IF nodeId \in st.visited THEN [result |-> FALSE, st |-> st]
    ELSE LET r == hasCycleNeighbors(edges, adjacencyOf(edges, nodeId, 1), 1,
                      [visited |-> st.visited \cup {nodeId},
                       recursionStack |-> st.recursionStack \cup {nodeId}])
         IN  IF r.result THEN r
             ELSE [result |-> FALSE,
                   st |-> [r.st EXCEPT !.recursionStack = @ \ {nodeId}]]

hasCycleNeighbors(edges, neighbors, i, st) ==
    IF i > Len(neighbors) THEN [result |-> FALSE, st |-> st]
    ELSE LET r == hasCycle(edges, neighbors[i], st)
         IN  IF r.result THEN r ELSE hasCycleNeighbors(edges, neighbors, i + 1, r.st)

\* the loop over the nodes: a cycle found from any unvisited node
RECURSIVE anyCycleFrom(_, _, _, _)
anyCycleFrom(nodes, edges, i, st) ==
    IF i > Len(nodes) THEN FALSE
    ELSE IF nodes[i].id \in st.visited THEN anyCycleFrom(nodes, edges, i + 1, st)
    ELSE LET r == hasCycle(edges, nodes[i].id, st)
         IN  IF r.result THEN TRUE ELSE anyCycleFrom(nodes, edges, i + 1, r.st)

\* a faulty variant: an empty edge list is not told apart
isHierarchicalGraphNoEmptyCheck(nodes, edges) ==
    ~anyCycleFrom(nodes, edges, 1, [visited |-> {}, recursionStack |-> {}])

isHierarchicalGraph(nodes, edges) ==
    IF Len(edges) = 0 THEN FALSE
    ELSE ~anyCycleFrom(nodes, edges, 1, [visited |-> {}, recursionStack |-> {}])

\* d3-force, the library the force-directed layout drives.  forceLink resolves
\* each edge's source and target by id when the simulation is set up and throws
\* "node not found" for an id no node has.  One tick of the simulation moves the
\* nodes; of its forces the model keeps the centering one (the nodes are shifted
\* by centerStrength times the offset of their mean from the centre).
RECURSIVE sumOf(_, _, _)
sumOf(layoutNodes, field, i) ==
    IF i > Len(layoutNodes) THEN 0
    ELSE layoutNodes[i][field] + sumOf(layoutNodes, field, i + 1)

simulationTick(layoutNodes, opts) ==
    LET n == Len(layoutNodes)
        sx == sumOf(layoutNodes, "x", 1) \div n - opts.width \div 2
        sy == sumOf(layoutNodes, "y", 1) \div n - opts.height \div 2
    IN  [i \in 1..n |->
            [layoutNodes[i] EXCEPT
                !.x = @ - (sx * opts.centerStrengthTenths) \div 10,
                !.y = @ - (sy * opts.centerStrengthTenths) \div 10]]

\* for (let i = 0; i < opts.iterations; i++) simulation.tick()
RECURSIVE runSimulation(_, _, _)
runSimulation(layoutNodes, opts, i) ==
    IF i >= opts.iterations \/ Len(layoutNodes) = 0 THEN layoutNodes
    ELSE runSimulation(simulationTick(layoutNodes, opts), opts, i + 1)

applyForceDirectedLayout(nodes, edges, options) ==
    LET opts == mergeOptions(options)
        layoutNodes == [i \in 1..Len(nodes) |->
                           [id |-> nodes[i].id, x |-> nodes[i].position.x,
                            y |-> nodes[i].position.y, originalNode |-> nodes[i]]]
        dangling == \E j \in 1..Len(edges) :
                        \/ edges[j].source \notin idsOf(nodes)
                        \/ edges[j].target \notin idsOf(nodes)
        ticked == runSimulation(layoutNodes, opts, 0)
    IN  IF dangling THEN [error |-> "node not found"]
        ELSE [nodes |-> [i \in 1..Len(ticked) |->
                            [ticked[i].originalNode EXCEPT
                                !.position = Point(ticked[i].x, ticked[i].y)]],
              edges |-> edges]

\* a faulty variant: a single node is handed to the force-directed layout like any other
applyAutoLayoutNoSingle(nodes, edges, options) ==
    IF Len(nodes) = 0 THEN [nodes |-> nodes, edges |-> edges]
    ELSE IF isHierarchicalGraph(nodes, edges)
      THEN applyHierarchicalLayout(nodes, edges, options)
    ELSE applyForceDirectedLayout(nodes, edges, options)

applyAutoLayout(nodes, edges, options) ==
    IF Len(nodes) = 0 THEN [nodes |-> nodes, edges |-> edges]
    ELSE IF Len(nodes) = 1
      THEN LET opts == mergeOptions(options)
           IN  [nodes |-> <<[nodes[1] EXCEPT
                                !.position = Point(opts.width \div 2, opts.height \div 2)]>>,
                edges |-> edges]
    ELSE IF isHierarchicalGraph(nodes, edges)
      THEN applyHierarchicalLayout(nodes, edges, options)
    ELSE applyForceDirectedLayout(nodes, edges, options)

(***************************************************************************)
(* The projection, applied to boxes and points.                            *)
(***************************************************************************)
SessionUnused ==
    /\ graph = [nodes |-> <<>>, edges |-> <<>>]
    /\ connectionMode = IdleMode
    /\ cursorPosition = <<>>
    /\ hoveredNodeId = NoId
    /\ snapPosition = <<>>
    /\ listeners = NoListeners
    /\ lastOp = "init"
    /\ prevOp = "init"
    /\ requests = 0
    /\ cancels = 0

GeomBoxes ==
    { [position |-> Point(0, 0), size |-> [width |-> 100, height |-> 50]],
      [position |-> Point(25, -25), size |-> [width |-> 50, height |-> 75]] }

GeomPoints ==
    {Point(25 * i - 50, 25 * j - 50) : i \in 0..GridN, j \in 0..GridN}
        \cup {Point(500, 25), Point(110, 45), Point(-15, 10)}

GeomInit ==
    /\ SessionUnused
    /\ layoutIn = NoLayout /\ layoutOut = <<>>
    /\ geomIn \in {[position |-> b.position, size |-> b.size, point |-> p] :
                      b \in GeomBoxes, p \in GeomPoints}
    /\ geomOut = <<>>

Project ==
    /\ geomOut = <<>>
    /\ geomOut' = Some(getClosestPointOnNode(geomIn.position, geomIn.size, geomIn.point))
    /\ UNCHANGED <<geomIn, sessionVars, layoutVars>>

GeomNext == Project

SpecGeometry == GeomInit /\ [][GeomNext]_vars

(***************************************************************************)
(* ConnectionSystem / ConnectionHandle: the anchor of a connection handle. *)
(* Sizes are even, so that width / 2 and height / 2 are whole numbers.     *)
(***************************************************************************)
handleSize == 16
offset == 8
totalOffset == offset + handleSize \div 2

\* a faulty variant: the anchor sits on the handle's near edge, `offset` away
getHandlePositionNearEdge(nodePosition, nodeSize, handlePosition) ==
    CASE handlePosition = "top" ->
            Point(nodePosition.x + nodeSize.width \div 2, nodePosition.y - offset)
      [] handlePosition = "right" ->
            Point(nodePosition.x + nodeSize.width + offset,
                  nodePosition.y + nodeSize.height \div 2)
      [] handlePosition = "bottom" ->
            Point(nodePosition.x + nodeSize.width \div 2,
                  nodePosition.y + nodeSize.height + offset)
      [] handlePosition = "left" ->
            Point(nodePosition.x - offset, nodePosition.y + nodeSize.height \div 2)

getHandlePosition(nodePosition, nodeSize, handlePosition) ==
    CASE handlePosition = "top" ->
            Point(nodePosition.x + nodeSize.width \div 2, nodePosition.y - totalOffset)
      [] handlePosition = "right" ->
            Point(nodePosition.x + nodeSize.width + totalOffset,
                  nodePosition.y + nodeSize.height \div 2)
      [] handlePosition = "bottom" ->
            Point(nodePosition.x + nodeSize.width \div 2,
                  nodePosition.y + nodeSize.height + totalOffset)
      [] handlePosition = "left" ->
            Point(nodePosition.x - totalOffset, nodePosition.y + nodeSize.height \div 2)

\* ConnectionHandle.getHandleStyle: the CSS inset of the rendered handle, in px,
\* on the edge named by `inset`, centred (50%) along the other axis.
styleHandleSize == 16
styleOffset == 8
getHandleStyle(position) ==
    [ width  |-> styleHandleSize,
      height |-> styleHandleSize,
      inset  |-> position,
      px     |-> 0 - (styleOffset + styleHandleSize \div 2),
      centre |-> IF position \in {"top", "bottom"} THEN "left" ELSE "top" ]

AnchorPositions == {Point(0, 0), Point(300, 0), Point(-40, 60), Point(520, 10)}
AnchorSizes ==
    { [width |-> 100, height |-> 50], [width |-> 192, height |-> 96],
      [width |-> 150, height |-> 40], [width |-> 20, height |-> 10] }

AnchorInit ==
    /\ SessionUnused
    /\ layoutIn = NoLayout /\ layoutOut = <<>>
    /\ geomIn \in {[position |-> p, size |-> sz, side |-> sd] :
                      p \in AnchorPositions, sz \in AnchorSizes, sd \in HandleSides}
    /\ geomOut = <<>>

\* ConnectionSystem computes the source end of the preview line, ConnectionHandle
\* styles the handle of the same side.
Anchor ==
    /\ geomOut = <<>>
    /\ geomOut' = Some([ anchor |-> getHandlePosition(geomIn.position, geomIn.size,
                                                      geomIn.side),
                         style  |-> getHandleStyle(geomIn.side) ])
    /\ UNCHANGED <<geomIn, sessionVars, layoutVars>>

AnchorNext == Anchor

SpecAnchor == AnchorInit /\ [][AnchorNext]_vars

(***************************************************************************)
(* The layout functions, applied to graphs.  The nodes are named in list   *)
(* order; the edges of a graph are listed without repetition, in a fixed   *)
(* order; with fewer than MaxNodes nodes an edge may name one id that no   *)
(* node has.                                                               *)
(***************************************************************************)
NodeName(i) == <<"A", "B", "C", "D", "E", "F", "G", "H">>[i]

LayoutNode(i) ==
    [id |-> NodeName(i), label |-> NodeName(i), markup |-> "notes",
     position |-> Point(120 * i, 80 * (i % 3)),
     size |-> IF i % 2 = 0 THEN <<>> ELSE <<[width |-> 192, height |-> 96]>>]

\* the strictly increasing sequences over 1..n of length m
RECURSIVE IncreasingSeqsOfLen(_, _)
IncreasingSeqsOfLen(n, m) ==
    IF m = 0 THEN {<<>>}
    ELSE {Append(p[1], p[2]) :
             p \in {r \in IncreasingSeqsOfLen(n, m - 1) \X (1..n) :
                        m = 1 \/ r[1][m - 1] < r[2]}}

\* the strictly increasing sequences over 1..n of length at most m
IncreasingSeqs(n, m) == UNION {IncreasingSeqsOfLen(n, l) : l \in 0..m}

\* the edge lists over the ids 1..n
EdgeLists(n) ==
    {[i \in 1..Len(q) |->
         [source |-> NodeName(((q[i] - 1) \div n) + 1),
          target |-> NodeName(((q[i] - 1) % n) + 1)]] :
       q \in IncreasingSeqs(n * n, MaxEdges)}

LayoutOptionChoices ==
    { [iterations |-> 1],
      [width |-> 1000, height |-> 600, iterations |-> MaxIterations] }

\* the first k nodes
LayoutNodes(k) == [i \in 1..k |-> LayoutNode(i)]

\* the graphs of k nodes: their edges run between the k nodes and, while there is
\* room for it, one id more that no node has
LayoutInputs(k) ==
    {[nodes |-> LayoutNodes(k), edges |-> es, options |-> o] :
        es \in EdgeLists(IF k < MaxNodes THEN k + 1 ELSE k),
        o \in LayoutOptionChoices}

LayoutInit ==
    /\ SessionUnused
    /\ geomIn = NoGeom /\ geomOut = <<>>
    /\ \E k \in 0..MaxNodes : layoutIn \in LayoutInputs(k)
    /\ layoutOut = <<>>

Returned(fn, result) == layoutOut' = Some([fn |-> fn, result |-> result])

CallAutoLayout ==
    /\ layoutOut = <<>>
    /\ Returned("applyAutoLayout",
                applyAutoLayout(layoutIn.nodes, layoutIn.edges, layoutIn.options))
    /\ UNCHANGED <<layoutIn, sessionVars, geomVars>>

CallForceDirectedLayout ==
    /\ layoutOut = <<>>
    /\ Returned("applyForceDirectedLayout",
                applyForceDirectedLayout(layoutIn.nodes, layoutIn.edges, layoutIn.options))
    /\ UNCHANGED <<layoutIn, sessionVars, geomVars>>

CallHierarchicalLayout ==
    /\ layoutOut = <<>>
    /\ Returned("applyHierarchicalLayout",
                applyHierarchicalLayout(layoutIn.nodes, layoutIn.edges, layoutIn.options))
    /\ UNCHANGED <<layoutIn, sessionVars, geomVars>>

CallIsHierarchicalGraph ==
    /\ layoutOut = <<>>
    /\ Returned("isHierarchicalGraph",
                isHierarchicalGraph(layoutIn.nodes, layoutIn.edges))
    /\ UNCHANGED <<layoutIn, sessionVars, geomVars>>

LayoutNext ==
    \/ CallAutoLayout
    \/ CallForceDirectedLayout
    \/ CallHierarchicalLayout
    \/ CallIsHierarchicalGraph

SpecLayout == LayoutInit /\ [][LayoutNext]_vars

(***************************************************************************)
(* The layout functions on objects.  The heap is the sequence of the       *)
(* objects allocated so far and a reference is an index into it; the       *)
(* caller's node objects come first, then its edge objects.  The positions *)
(* are those the functions above compute.                                  *)
(***************************************************************************)
\* the objects the references point to
deref(heap, refs) == [i \in 1..Len(refs) |-> heap[refs[i]]]

\* a faulty variant: the new position is assigned to the caller's node object,
\* which is returned
assignNodes(heap, nodeRefs, records) ==
    [heap |-> [a \in 1..Len(heap) |->
                  IF \E i \in 1..Len(nodeRefs) : nodeRefs[i] = a
                       /\ \E j \in 1..Len(records) : records[j].id = heap[a].id
                    THEN records[CHOOSE j \in 1..Len(records) :
                                     records[j].id = heap[a].id]
                    ELSE heap[a]],
     nodes |-> [j \in 1..Len(records) |->
                   CHOOSE a \in 1..Len(heap) :
                       /\ \E i \in 1..Len(nodeRefs) : nodeRefs[i] = a
                       /\ heap[a].id = records[j].id]]

\* updatedNodes of { ...node, position: { x, y } }: every object literal is a
\* new object, the node it spreads is only read
spreadNodes(heap, nodeRefs, records) ==
    [heap |-> heap \o records,
     nodes |-> [j \in 1..Len(records) |-> Len(heap) + j]]

applyHierarchicalLayoutOnHeap(heap, nodeRefs, edgeRefs, options) ==
    LET placed == applyHierarchicalLayout(deref(heap, nodeRefs), deref(heap, edgeRefs),
                                          options).nodes
        updatedNodes == spreadNodes(heap, nodeRefs, placed)
    IN  [heap |-> updatedNodes.heap, nodes |-> updatedNodes.nodes, edges |-> edgeRefs]

\* layoutNodes and layoutEdges are new objects that hold references to the
\* caller's (originalNode, originalEdge); d3 writes x and y into the layoutNodes
\* and replaces source and target of the layoutEdges by the layoutNode objects
applyForceDirectedLayoutOnHeap(heap, nodeRefs, edgeRefs, options) ==
    LET opts == mergeOptions(options)
        nodes == deref(heap, nodeRefs)
        edges == deref(heap, edgeRefs)
        layoutNodes == [i \in 1..Len(nodes) |->
                           [id |-> nodes[i].id, x |-> nodes[i].position.x,
                            y |-> nodes[i].position.y, originalNode |-> nodeRefs[i]]]
        layoutEdges == [j \in 1..Len(edges) |->
                           [source |-> edges[j].source, target |-> edges[j].target,
                            originalEdge |-> edgeRefs[j]]]
        layoutNodeRef(id) == Len(heap) + (CHOOSE i \in 1..Len(nodes) : nodes[i].id = id)
        linked == [j \in 1..Len(edges) |->
                      [layoutEdges[j] EXCEPT !.source = layoutNodeRef(edges[j].source),
                                             !.target = layoutNodeRef(edges[j].target)]]
        ticked == runSimulation(layoutNodes, opts, 0)
        worked == heap \o ticked \o linked
        updated == [i \in 1..Len(ticked) |->
                       [worked[ticked[i].originalNode] EXCEPT
                           !.position = Point(ticked[i].x, ticked[i].y)]]
        updatedNodes == spreadNodes(worked, nodeRefs, updated)
    IN  IF \E j \in 1..Len(edges) : \/ edges[j].source \notin idsOf(nodes)
                                    \/ edges[j].target \notin idsOf(nodes)
          THEN [error |-> "node not found", heap |-> heap \o layoutNodes \o layoutEdges]
          ELSE [heap |-> updatedNodes.heap, nodes |-> updatedNodes.nodes,
                edges |-> edgeRefs]

applyAutoLayoutOnHeap(heap, nodeRefs, edgeRefs, options) ==
    IF Len(nodeRefs) = 0 THEN [heap |-> heap, nodes |-> nodeRefs, edges |-> edgeRefs]
    ELSE IF Len(nodeRefs) = 1
      THEN LET centred == applyAutoLayout(deref(heap, nodeRefs), deref(heap, edgeRefs),
                                          options).nodes
               updatedNodes == spreadNodes(heap, nodeRefs, centred)
           IN  [heap |-> updatedNodes.heap, nodes |-> updatedNodes.nodes,
                edges |-> edgeRefs]
    ELSE IF isHierarchicalGraph(deref(heap, nodeRefs), deref(heap, edgeRefs))
      THEN applyHierarchicalLayoutOnHeap(heap, nodeRefs, edgeRefs, options)
    ELSE applyForceDirectedLayoutOnHeap(heap, nodeRefs, edgeRefs, options)

\* the caller's graph as objects: the nodes at 1..k, the edges after them
HeapInit ==
    /\ SessionUnused
    /\ geomIn = NoGeom /\ geomOut = <<>>
    /\ \E k \in 0..MaxNodes : \E in \in LayoutInputs(k) :
          layoutIn = [heap |-> in.nodes \o in.edges,
                      nodes |-> [i \in 1..Len(in.nodes) |-> i],
                      edges |-> [j \in 1..Len(in.edges) |-> Len(in.nodes) + j],
                      options |-> in.options]
    /\ layoutOut = <<>>

CallForceDirectedLayoutOnHeap ==
    /\ layoutOut = <<>>
    /\ Returned("applyForceDirectedLayout",
                applyForceDirectedLayoutOnHeap(layoutIn.heap, layoutIn.nodes,
                                               layoutIn.edges, layoutIn.options))
    /\ UNCHANGED <<layoutIn, sessionVars, geomVars>>

CallHierarchicalLayoutOnHeap ==
    /\ layoutOut = <<>>
    /\ Returned("applyHierarchicalLayout",
                applyHierarchicalLayoutOnHeap(layoutIn.heap, layoutIn.nodes,
                                              layoutIn.edges, layoutIn.options))
    /\ UNCHANGED <<layoutIn, sessionVars, geomVars>>

CallAutoLayoutOnHeap ==
    /\ layoutOut = <<>>
    /\ Returned("applyAutoLayout",
                applyAutoLayoutOnHeap(layoutIn.heap, layoutIn.nodes,
                                      layoutIn.edges, layoutIn.options))
    /\ UNCHANGED <<layoutIn, sessionVars, geomVars>>

HeapNext ==
    \/ CallForceDirectedLayoutOnHeap
    \/ CallHierarchicalLayoutOnHeap
    \/ CallAutoLayoutOnHeap

SpecHeap == HeapInit /\ [][HeapNext]_vars

(***************************************************************************)
(* isLayoutCluttered run on its own inputs.                                *)
(***************************************************************************)
ClutterPositions ==
    { Point(0, 0), Point(100, 0), Point(150, 0), Point(200, 0), Point(90, 120),
      Point(0, 149) }

\* the lists of n nodes at these positions
RECURSIVE ClutterLists(_)
ClutterLists(n) ==
    IF n = 0 THEN {<<>>}
    ELSE {Append(q, [LayoutNode(n) EXCEPT !.position = pos]) :
             q \in ClutterLists(n - 1), pos \in ClutterPositions}

ClutterInit ==
    /\ SessionUnused
    /\ geomIn = NoGeom /\ geomOut = <<>>
    /\ \E n \in 0..MaxClutterNodes : \E q \in ClutterLists(n) :
          layoutIn = [nodes |-> q, edges |-> <<>>, options |-> <<>>]
    /\ layoutOut = <<>>

CallIsLayoutCluttered ==
    /\ layoutOut = <<>>
    /\ Returned("isLayoutCluttered", isLayoutCluttered(layoutIn.nodes))
    /\ UNCHANGED <<layoutIn, sessionVars, geomVars>>

ClutterNext == CallIsLayoutCluttered

SpecClutter == ClutterInit /\ [][ClutterNext]_vars

(***************************************************************************)
(* graphLayout: a series of layout calls made by one client.  The only      *)
(* state of the module that outlives a call is the object DEFAULT_OPTIONS;  *)
(* layoutIn holds it, layoutOut is the record of the calls made so far.     *)
(***************************************************************************)
\* a faulty variant: Object.assign(DEFAULT_OPTIONS, options)
defaultsAssigned(defaults, options) ==
    [k \in DOMAIN defaults |-> IF k \in DOMAIN options THEN options[k] ELSE defaults[k]]

\* const opts = { ...DEFAULT_OPTIONS, ...options } copies: DEFAULT_OPTIONS is
\* what it was
defaultsAfterSpread(defaults, options) == defaults

\* { ...DEFAULT_OPTIONS, ...options } for the DEFAULT_OPTIONS object as it is now
spreadOptions(defaults, options) ==
    [k \in DOMAIN defaults |-> IF k \in DOMAIN options THEN options[k] ELSE defaults[k]]

SeriesGraphs ==
    { [nodes |-> LayoutNodes(3),
       edges |-> <<[source |-> NodeName(1), target |-> NodeName(2)]>>],
      [nodes |-> LayoutNodes(2),
       edges |-> <<[source |-> NodeName(1), target |-> NodeName(2)],
                   [source |-> NodeName(2), target |-> NodeName(1)]>>] }

SeriesInit ==
    /\ SessionUnused
    /\ geomIn = NoGeom /\ geomOut = <<>>
    /\ layoutIn = [defaults |-> DEFAULT_OPTIONS]
    /\ layoutOut = <<>>

SeriesCall(fn, g, o, result) ==
    /\ Len(layoutOut) < MaxCalls
    /\ layoutOut' = Append(layoutOut, [fn |-> fn, nodes |-> g.nodes, edges |-> g.edges,
                                        options |-> o, result |-> result])
    /\ layoutIn' = [defaults |-> defaultsAfterSpread(layoutIn.defaults, o)]
    /\ UNCHANGED <<sessionVars, geomVars>>

SeriesForceDirectedLayout ==
    \E g \in SeriesGraphs, o \in LayoutOptionChoices :
        SeriesCall("applyForceDirectedLayout", g, o,
                   applyForceDirectedLayout(g.nodes, g.edges,
                                            spreadOptions(layoutIn.defaults, o)))

SeriesHierarchicalLayout ==
    \E g \in SeriesGraphs, o \in LayoutOptionChoices :
        SeriesCall("applyHierarchicalLayout", g, o,
                   applyHierarchicalLayout(g.nodes, g.edges,
                                           spreadOptions(layoutIn.defaults, o)))

SeriesAutoLayout ==
    \E g \in SeriesGraphs, o \in LayoutOptionChoices :
        SeriesCall("applyAutoLayout", g, o,
                   applyAutoLayout(g.nodes, g.edges,
                                   spreadOptions(layoutIn.defaults, o)))

SeriesNext ==
    \/ SeriesForceDirectedLayout
    \/ SeriesHierarchicalLayout
    \/ SeriesAutoLayout

SpecSeries == SeriesInit /\ [][SeriesNext]_vars

(***************************************************************************)
(* graphLayout: the loops of the layout functions, one iteration a step.    *)
(* layoutIn is the call (function, nodes, edges, options), layoutOut the    *)
(* locals of the running loop:                                              *)
(*   applyHierarchicalLayout  levels, queue, and the ids pushed so far      *)
(*   isHierarchicalGraph      visited, recursionStack, the call stack of    *)
(*                            hasCycle (node and next neighbour of each     *)
(*                            open call), the position of the loop over the *)
(*                            nodes, the ids expanded so far, the result    *)
(*   applyForceDirectedLayout the loop counter i, the simulation nodes and  *)
(*                            the number of ticks made                      *)
(***************************************************************************)
LoopInputs(k) ==
    {[nodes |-> LayoutNodes(k), edges |-> es, options |-> o] :
        es \in EdgeLists(k), o \in LayoutOptionChoices}

\* applyHierarchicalLayout up to the while loop
bfsStart(nodes, edges) ==
    LET rootNodes == rootNodesOf(nodes, edges)
    IN  [levels |-> [id \in idsOf(rootNodes) |-> 0],
         queue |-> [i \in 1..Len(rootNodes) |-> [nodeId |-> rootNodes[i].id, level |-> 0]],
         enqueued |-> [i \in 1..Len(rootNodes) |-> rootNodes[i].id]]

\* isHierarchicalGraph up to the loop over the nodes
cycleStart(nodes, edges) ==
    [visited |-> {}, recursionStack |-> {}, stack |-> <<>>, index |-> 1,
     expanded |-> <<>>,
     result |-> IF Len(edges) = 0 THEN "false" ELSE "running"]

\* applyForceDirectedLayout up to the for loop
ticksStart(nodes, edges) ==
    [i |-> 0, ticks |-> 0,
     layoutNodes |-> [j \in 1..Len(nodes) |->
                         [id |-> nodes[j].id, x |-> nodes[j].position.x,
                          y |-> nodes[j].position.y, originalNode |-> nodes[j]]]]

LoopInit ==
    /\ SessionUnused
    /\ geomIn = NoGeom /\ geomOut = <<>>
    /\ \E k \in 0..MaxLoopNodes, fn \in {"applyHierarchicalLayout", "isHierarchicalGraph",
                                         "applyForceDirectedLayout"} :
          \E c \in LoopInputs(k) :
             /\ layoutIn = [fn |-> fn, nodes |-> c.nodes, edges |-> c.edges,
                            options |-> c.options]
             /\ layoutOut = << CASE fn = "applyHierarchicalLayout" -> bfsStart(c.nodes, c.edges)
                                 [] fn = "isHierarchicalGraph" -> cycleStart(c.nodes, c.edges)
                                 [] fn = "applyForceDirectedLayout" -> ticksStart(c.nodes, c.edges) >>

\* one iteration of while (queue.length > 0)
BfsIteration ==
    /\ layoutIn.fn = "applyHierarchicalLayout"
    /\ Len(layoutOut[1].queue) > 0
    /\ LET st == layoutOut[1]
           head == Head(st.queue)
           rest == Tail(st.queue)
           children == adjacencyOf(layoutIn.edges, head.nodeId, 1)
           next == visitChildren(children, 1, head.level,
                                 [levels |-> st.levels, queue |-> rest])
       IN  layoutOut' = << [levels |-> next.levels,
                            queue |-> next.queue,
                            enqueued |-> st.enqueued \o
                                [j \in 1..(Len(next.queue) - Len(rest)) |->
                                    next.queue[Len(rest) + j].nodeId]] >>
    /\ UNCHANGED <<layoutIn, sessionVars, geomVars>>

\* hasCycle(nodeId) entered past its two checks: the node is marked and its loop
\* over the neighbours is opened
cycleExpand(st, nodeId) ==
    [st EXCEPT !.visited = @ \cup {nodeId},
               !.recursionStack = @ \cup {nodeId},
               !.stack = Append(@, [nodeId |-> nodeId, i |-> 1]),
               !.expanded = Append(@, nodeId)]

\* one iteration of for (const node of nodes), no call of hasCycle being open
CycleNextNode ==
    /\ layoutIn.fn = "isHierarchicalGraph"
    /\ layoutOut[1].result = "running"
    /\ Len(layoutOut[1].stack) = 0
    /\ LET st == layoutOut[1]
       IN  layoutOut' = <<
             IF st.index > Len(layoutIn.nodes) THEN [st EXCEPT !.result = "true"]
             ELSE IF layoutIn.nodes[st.index].id \in st.visited
               THEN [st EXCEPT !.index = @ + 1]
             ELSE cycleExpand([st EXCEPT !.index = @ + 1], layoutIn.nodes[st.index].id) >>
    /\ UNCHANGED <<layoutIn, sessionVars, geomVars>>

\* one iteration of for (const neighbor of neighbors) in the innermost open call
\* of hasCycle, or its return when the neighbours are used up
CycleNextNeighbor ==
    /\ layoutIn.fn = "isHierarchicalGraph"
    /\ layoutOut[1].result = "running"
    /\ Len(layoutOut[1].stack) > 0
    /\ LET st == layoutOut[1]
           top == Len(st.stack)
           frame == st.stack[top]
           neighbors == adjacencyOf(layoutIn.edges, frame.nodeId, 1)
           advanced == [st EXCEPT !.stack[top].i = @ + 1]
       IN  layoutOut' = <<
             IF frame.i > Len(neighbors)
               THEN [st EXCEPT !.stack = SubSeq(@, 1, top - 1),
                               !.recursionStack = @ \ {frame.nodeId}]
             ELSE IF neighbors[frame.i] \in st.recursionStack
               THEN [st EXCEPT !.result = "false"]
             ELSE IF neighbors[frame.i] \in st.visited
               THEN advanced
             ELSE cycleExpand(advanced, neighbors[frame.i]) >>
    /\ UNCHANGED <<layoutIn, sessionVars, geomVars>>

\* one iteration of for (let i = 0; i < opts.iterations; i++) simulation.tick()
TickIteration ==
    /\ layoutIn.fn = "applyForceDirectedLayout"
    /\ layoutOut[1].i < mergeOptions(layoutIn.options).iterations
    /\ LET st == layoutOut[1]
       IN  layoutOut' = << [i |-> st.i + 1,
                            ticks |-> st.ticks + 1,
                            layoutNodes |->
                                IF Len(st.layoutNodes) = 0 THEN st.layoutNodes
                                ELSE simulationTick(st.layoutNodes,
                                                    mergeOptions(layoutIn.options))] >>
    /\ UNCHANGED <<layoutIn, sessionVars, geomVars>>

LoopNext ==
    \/ BfsIteration
    \/ CycleNextNode
    \/ CycleNextNeighbor
    \/ TickIteration

\* the loops are plain sequential code: a loop whose condition holds runs its
\* next iteration
SpecLoops == LoopInit /\ [][LoopNext]_vars /\ WF_vars(LoopNext)

(***************************************************************************)
(* Properties of the connection session.                                   *)
(***************************************************************************)
EdgeIndexes == 1..Len(graph.edges)
NodeIndexes == 1..Len(graph.nodes)
Active == connectionMode.isActive
Source == connectionMode.sourceNodeId

\* C1: whatever the session operations were, no edge of the graph (every edge is
\* one a connection-request added) has its source as its target.
C1_NoSelfLoopEdge ==
    \A i \in EdgeIndexes : graph.edges[i].source # graph.edges[i].target

\* C1 witness: a completion was attempted on the session's own source node (the
\* session ended by the self-loop branch of completeConnection) and added nothing.
C1_Witness ==
    /\ lastOp \in {"mouseUp", "nodeClick"}
    /\ cancels = 1 /\ requests = 0
    /\ ~Active
    /\ graph.edges = <<>>

\* C2 (as stated): start(A, side), then an updateCursor inside the padded box of a
\* node B other than A, then commit: exactly one connection-request A -> B is
\* emitted and the session is Idle.
C2_StartHoverCommitEmits ==
    [][ ( /\ prevOp = "startFromHandle"
          /\ lastOp = "mouseMove"
          /\ lastOp' = "mouseUp" )
        => \A i \in NodeIndexes :
              ( /\ graph.nodes[i].id # Source
                /\ inPaddedBox(graph.nodes[i], cursorPosition[1]) )
              => /\ Len(graph'.edges) = Len(graph.edges) + 1
                 /\ graph'.edges[Len(graph'.edges)].source = Source
                 /\ graph'.edges[Len(graph'.edges)].target = graph.nodes[i].id
                 /\ requests' = 1
                 /\ ~connectionMode'.isActive ]_vars

\* C3 (as stated): a session has at most one terminal event, a connection-request
\* or a cancel.
C3_AtMostOneTerminalEvent == requests + cancels <= 1

\* the size the claim C8 states for a node: its size, 192 x 96 when it has none
C8_StatedSize(node) ==
    [width |-> IF node.sw # 0 THEN node.sw ELSE DefaultNodeWidth,
     height |-> IF node.sh # 0 THEN node.sh ELSE DefaultNodeHeight]

\* candidate i qualifies: it is not the source and its box of the given size,
\* extended by 20 on every side, holds p
C8_Qualifies(i, p, size) ==
    /\ graph.nodes[i].id # Source
    /\ graph.nodes[i].position.x - 20 <= p.x
    /\ p.x <= graph.nodes[i].position.x + size.width + 20
    /\ graph.nodes[i].position.y - 20 <= p.y
    /\ p.y <= graph.nodes[i].position.y + size.height + 20

\* C8 (as stated): after updateCursor the hovered node is the first candidate that
\* qualifies with its stated size (size, else 192 x 96), none when there is none.
C8_HoverIsFirstCandidateStated ==
    lastOp = "mouseMove" =>
        LET p == cursorPosition[1]
            Q == {i \in NodeIndexes : C8_Qualifies(i, p, C8_StatedSize(graph.nodes[i]))}
        IN  IF Q = {} THEN hoveredNodeId = NoId
            ELSE \E i \in Q : /\ \A j \in Q : i <= j
                              /\ hoveredNodeId = graph.nodes[i].id

\* the size the code gives a node: its size, else the dimensions the renderer
\* measured, else 192 x 96
C8_EffectiveSize(node) ==
    [width |-> IF node.sw # 0 THEN node.sw
               ELSE IF node.mw # 0 THEN node.mw ELSE 192,
     height |-> IF node.sh # 0 THEN node.sh
                ELSE IF node.mh # 0 THEN node.mh ELSE 96]

\* C8 (amended): after updateCursor the hovered node is the first candidate in
\* list order, the source skipped, whose box (size, else measured dimensions, else
\* 192 x 96) extended by 20 on every side holds the position, borders included;
\* none when no candidate qualifies.
C8_HoverIsFirstCandidate ==
    lastOp = "mouseMove" =>
        LET p == cursorPosition[1]
            Q == {i \in NodeIndexes : C8_Qualifies(i, p, C8_EffectiveSize(graph.nodes[i]))}
        IN  IF Q = {} THEN hoveredNodeId = NoId
            ELSE \E i \in Q : /\ \A j \in Q : i <= j
                              /\ hoveredNodeId = graph.nodes[i].id

\* C8 witness: the cursor was moved to a position inside the padded boxes of two
\* candidates, and the hovered node is set.
C8_Witness ==
    /\ lastOp = "mouseMove"
    /\ hoveredNodeId # NoId
    /\ Cardinality({i \in NodeIndexes :
           C8_Qualifies(i, cursorPosition[1], C8_EffectiveSize(graph.nodes[i]))}) >= 2

\* C9 (as stated): a commit while Active with no hovered node is a no-op: nothing
\* is emitted, the graph is unchanged and the session stays Active with the same
\* source and handle.
C9_CommitWithoutHoverIsNoOp ==
    [][ ( /\ Active
          /\ hoveredNodeId = NoId
          /\ lastOp' = "mouseUp" )
        => /\ graph' = graph
           /\ requests' = requests
           /\ connectionMode' = connectionMode ]_vars

\* C10: a cancel (Escape or a click on the empty canvas) from an Active state
\* leaves the session Idle with no source, handle, cursor position, hovered node
\* or snap point, and adds no edge.
C10_CancelDiscardsSession ==
    [][ ( /\ Active
          /\ lastOp' \in {"escape", "paneClick"} )
        => /\ connectionMode' = IdleMode
           /\ cursorPosition' = <<>>
           /\ hoveredNodeId' = NoId
           /\ snapPosition' = <<>>
           /\ graph' = graph ]_vars

\* C10 witness: a session that had received cursor updates was cancelled.
C10_Witness ==
    /\ lastOp \in {"escape", "paneClick"}
    /\ prevOp \in {"mouseMove", "render"}
    /\ cancels >= 1
    /\ ~Active

\* C11 (as stated): a start with a source id that no node of the graph has is
\* rejected: the session is not Active after it.
C11_UnknownSourceRejected ==
    [][ ( /\ lastOp' \in {"startFromHandle", "startFromMenu"}
          /\ connectionMode'.sourceNodeId \notin NodeIds )
        => ~connectionMode'.isActive ]_vars

\* C12 (as stated): a commit on the session's own source node, by a click on it,
\* emits nothing and leaves the session Active as it was.
C12_CommitOnSourceKeepsSession ==
    [][ ( /\ Active
          /\ Source \in NodeIds
          /\ NodeClick(Source) )
        => /\ graph' = graph
           /\ requests' = requests
           /\ connectionMode' = connectionMode ]_vars

\* the point lies on one of the four sides of the box
OnBoxBoundary(p, position, size) ==
    \/ /\ p.x \in {position.x, position.x + size.width}
       /\ position.y <= p.y /\ p.y <= position.y + size.height
    \/ /\ p.y \in {position.y, position.y + size.height}
       /\ position.x <= p.x /\ p.x <= position.x + size.width

\* C20: in every session state the snap point is set exactly when the hovered
\* node is, and a set snap point lies on the boundary of the hovered node's
\* unpadded box.
C20_SnapOnHoveredBoundary ==
    /\ (snapPosition # <<>>) <=> (hoveredNodeId # NoId)
    /\ hoveredNodeId # NoId =>
          \E i \in NodeIndexes :
              /\ graph.nodes[i].id = hoveredNodeId
              /\ OnBoxBoundary(snapPosition[1], graph.nodes[i].position,
                               C8_EffectiveSize(graph.nodes[i]))

\* C20 witness: the cursor is in the padded zone of the hovered node, outside its
\* box, and the snap point is a point other than the cursor's.
C20_Witness ==
    /\ lastOp = "mouseMove"
    /\ hoveredNodeId # NoId
    /\ snapPosition # <<>>
    /\ snapPosition[1] # cursorPosition[1]
    /\ \E i \in NodeIndexes :
          /\ graph.nodes[i].id = hoveredNodeId
          /\ \/ cursorPosition[1].x < graph.nodes[i].position.x
             \/ cursorPosition[1].y < graph.nodes[i].position.y
             \/ cursorPosition[1].x > graph.nodes[i].position.x
                                        + C8_EffectiveSize(graph.nodes[i]).width
             \/ cursorPosition[1].y > graph.nodes[i].position.y
                                        + C8_EffectiveSize(graph.nodes[i]).height

\* the point lies on the boundary of the box of the node with this id
OnBoxBoundaryOf(id, p) ==
    \E i \in NodeIndexes :
        /\ graph.nodes[i].id = id
        /\ OnBoxBoundary(p, graph.nodes[i].position, C8_EffectiveSize(graph.nodes[i]))

\* C21 (as stated): every edge a connection-request added carries the snap point
\* and the source handle of its session.
C21_RequestCarriesSnapAndHandle ==
    \A i \in EdgeIndexes :
        /\ graph.edges[i].metadata # <<>>
        /\ graph.edges[i].metadata[1].sourceHandle \in HandleSides

\* C25 (as stated): in every session state the hovered node is not the
\* session's source node.
C25_HoverIsNotSource ==
    ( Active /\ hoveredNodeId # NoId ) => hoveredNodeId # Source

\* C26 (as stated): a session that got no cursor update since its start has no
\* hovered node and no snap point, and a mouse-up directly after the start emits
\* nothing.
C26_NoHoverBeforeFirstMove ==
    [][ /\ ( lastOp' \in {"startFromHandle", "startFromMenu"}
             => hoveredNodeId' = NoId /\ snapPosition' = <<>> )
        /\ ( ( lastOp \in {"startFromHandle", "startFromMenu"} /\ lastOp' = "mouseUp" )
             => graph' = graph /\ requests' = requests ) ]_vars

\* C27 (as stated): a mouse-up commits to what the last cursor update found: with
\* a hovered node it adds the edge to that node at the current snap point, with
\* none it adds nothing.
C27_CommitUsesLatestCursor ==
    [][ ( Active /\ lastOp' = "mouseUp" ) =>
          IF hoveredNodeId # NoId /\ hoveredNodeId # Source
            THEN /\ Len(graph'.edges) = Len(graph.edges) + 1
                 /\ graph'.edges[Len(graph'.edges)].target = hoveredNodeId
                 /\ \/ connectionMode.sourceHandlePosition = "none"
                    \/ /\ graph'.edges[Len(graph'.edges)].metadata # <<>>
                       /\ graph'.edges[Len(graph'.edges)].metadata[1].targetPosition
                              = snapPosition[1]
            ELSE graph' = graph ]_vars

\* C28 (as stated): a commit that succeeds appends exactly one edge: the nodes
\* and the edges there were stay as they are, and the new edge has the session's
\* source, the committed node as target, the session's direction and the
\* metadata {sourceHandle, targetPosition}.
C28_CommitAppendsOneEdge ==
    [][ graph' # graph =>
          /\ graph'.nodes = graph.nodes
          /\ Len(graph'.edges) = Len(graph.edges) + 1
          /\ SubSeq(graph'.edges, 1, Len(graph.edges)) = graph.edges
          /\ LET newEdge == graph'.edges[Len(graph'.edges)]
             IN  /\ newEdge.source = Source
                 /\ newEdge.target \in NodeIds \ {Source}
                 /\ newEdge.directed = (connectionMode.edgeDirection = "directed")
                 /\ newEdge.metadata # <<>>
                 /\ newEdge.metadata[1].sourceHandle = connectionMode.sourceHandlePosition
                 /\ OnBoxBoundaryOf(newEdge.target, newEdge.metadata[1].targetPosition)
      ]_vars

(***************************************************************************)
(* Properties of the layout functions.                                     *)
(***************************************************************************)
Called(fn) == layoutOut # <<>> /\ layoutOut[1].fn = fn
Result == layoutOut[1].result

\* the targets of the edges leaving a node of S
Successors(S, edges) == {edges[j].target : j \in {k \in 1..Len(edges) : edges[k].source \in S}}

\* the ids reachable from S along the edges, S included
RECURSIVE ReachableFrom(_, _)
ReachableFrom(S, edges) ==
    LET T == S \cup Successors(S, edges)
    IN  IF T = S THEN S ELSE ReachableFrom(T, edges)

\* some directed cycle, self-loops included, can be reached from a listed node
CycleReachable(nodes, edges) ==
    \E v \in ReachableFrom(idsOf(nodes), edges) :
        v \in ReachableFrom(Successors({v}, edges), edges)

\* the width the options give, 1200 by default, and the height, 800 by default
StatedWidth(options) == IF "width" \in DOMAIN options THEN options.width ELSE 1200
StatedHeight(options) == IF "height" \in DOMAIN options THEN options.height ELSE 800

\* C4: applyAutoLayout returns its input unchanged for 0 nodes, the one node at
\* (width/2, height/2) for 1 node, and for 2 or more nodes what
\* applyHierarchicalLayout returns when isHierarchicalGraph holds and what
\* applyForceDirectedLayout returns otherwise.
C4_AutoLayoutDispatch ==
    Called("applyAutoLayout") =>
        LET nodes == layoutIn.nodes
            edges == layoutIn.edges
            options == layoutIn.options
        IN  /\ Len(nodes) = 0 => Result = [nodes |-> nodes, edges |-> edges]
            /\ Len(nodes) = 1 =>
                   /\ Result.edges = edges
                   /\ Len(Result.nodes) = 1
                   /\ Result.nodes[1].id = nodes[1].id
                   /\ Result.nodes[1].position.x * 2 = StatedWidth(options)
                   /\ Result.nodes[1].position.y * 2 = StatedHeight(options)
            /\ Len(nodes) >= 2 =>
                   IF isHierarchicalGraph(nodes, edges)
                     THEN Result = applyHierarchicalLayout(nodes, edges, options)
                     ELSE Result = applyForceDirectedLayout(nodes, edges, options)

\* C4 witness: applyAutoLayout was called on a single node with a cyclic edge list
\* (a self-loop) and returned it centred.
C4_Witness ==
    /\ Called("applyAutoLayout")
    /\ Len(layoutIn.nodes) = 1
    /\ CycleReachable(layoutIn.nodes, layoutIn.edges)
    /\ Result.nodes[1].position = Point(500, 300)

\* C5: isHierarchicalGraph is false for an empty edge list and otherwise true
\* exactly when no directed cycle is reachable from a listed node.
C5_HierarchicalIffAcyclic ==
    Called("isHierarchicalGraph") =>
        Result = ( /\ Len(layoutIn.edges) > 0
                   /\ ~CycleReachable(layoutIn.nodes, layoutIn.edges) )

\* C5 witness: the graph was found hierarchical although one of its nodes is
\* reached along edges from two different nodes.
C5_Witness ==
    /\ Called("isHierarchicalGraph")
    /\ Result = TRUE
    /\ \E i, j \in 1..Len(layoutIn.edges) :
          /\ layoutIn.edges[i].target = layoutIn.edges[j].target
          /\ layoutIn.edges[i].source # layoutIn.edges[j].source
          /\ layoutIn.edges[i].source \in idsOf(layoutIn.nodes)
          /\ layoutIn.edges[j].source \in idsOf(layoutIn.nodes)
          /\ { layoutIn.edges[i].source, layoutIn.edges[j].source } \subseteq
                 ReachableFrom({layoutIn.nodes[1].id}, layoutIn.edges)

\* the roots as C6 states them: the nodes no edge targets, the first node when
\* there is none
StatedRoots(nodes, edges) ==
    LET free == {id \in idsOf(nodes) : \A j \in 1..Len(edges) : edges[j].target # id}
    IN  IF free = {} /\ Len(nodes) > 0 THEN {nodes[1].id} ELSE free

\* the ids at most k edges away from a root
RECURSIVE WithinDistance(_, _, _)
WithinDistance(k, nodes, edges) ==
    IF k = 0 THEN StatedRoots(nodes, edges)
    ELSE LET near == WithinDistance(k - 1, nodes, edges)
         IN  near \cup Successors(near, edges)

\* the length of the shortest directed path from a root to id
ShortestPath(id, nodes, edges) ==
    CHOOSE k \in 0..(Len(edges) + 1) :
        /\ id \in WithinDistance(k, nodes, edges)
        /\ \A m \in 0..(k - 1) : id \notin WithinDistance(m, nodes, edges)

\* C6: in applyHierarchicalLayout every root has level 0 and every node reachable
\* from a root has the length of its shortest path from a root as its level (and
\* is placed at y = 250 times it).
C6_LevelsAreShortestPaths ==
    Called("applyHierarchicalLayout") =>
        LET nodes == layoutIn.nodes
            edges == layoutIn.edges
            levels == assignLevels(nodes, edges)
            roots == StatedRoots(nodes, edges)
        IN  /\ \A id \in roots : id \in DOMAIN levels /\ levels[id] = 0
            /\ \A id \in ReachableFrom(roots, edges) :
                   /\ id \in DOMAIN levels
                   /\ levels[id] = ShortestPath(id, nodes, edges)
            /\ \A i \in 1..Len(Result.nodes) :
                   Result.nodes[i].id \in ReachableFrom(roots, edges) =>
                       Result.nodes[i].position.y =
                           250 * ShortestPath(Result.nodes[i].id, nodes, edges)

\* C6 witness: the chain A -> B -> C was laid out with A, B, C at y = 0, 250, 500.
C6_Witness ==
    /\ Called("applyHierarchicalLayout")
    /\ Len(layoutIn.nodes) = 3
    /\ layoutIn.edges = << [source |-> "A", target |-> "B"],
                           [source |-> "B", target |-> "C"] >>
    /\ \E i, j, k \in 1..3 :
          /\ Result.nodes[i].id = "A" /\ Result.nodes[i].position.y = 0
          /\ Result.nodes[j].id = "B" /\ Result.nodes[j].position.y = 250
          /\ Result.nodes[k].id = "C" /\ Result.nodes[k].position.y = 500

\* the level C6 and C19 give a node: its shortest path from a root, 0 when no
\* root reaches it
StatedLevel(id, nodes, edges) ==
    IF id \in ReachableFrom(StatedRoots(nodes, edges), edges)
      THEN ShortestPath(id, nodes, edges)
      ELSE 0

LayoutFunctions == {"applyForceDirectedLayout", "applyHierarchicalLayout", "applyAutoLayout"}
ReturnedLayout ==
    /\ layoutOut # <<>>
    /\ layoutOut[1].fn \in LayoutFunctions
    /\ "nodes" \in DOMAIN Result

\* the records of the returned node list with the given id
ResultNodes(id) == {j \in 1..Len(Result.nodes) : Result.nodes[j].id = id}

\* C13: applyHierarchicalLayout places every node at y = level * 250 and the k
\* nodes of a level, in input order, at x = (width - (k - 1) * 300) / 2 + index * 300.
C13_RowsCentredAndSpaced ==
    Called("applyHierarchicalLayout") =>
        LET nodes == layoutIn.nodes
            edges == layoutIn.edges
            width == StatedWidth(layoutIn.options)
        IN  \A i \in 1..Len(nodes) :
               LET l == StatedLevel(nodes[i].id, nodes, edges)
                   row == {j \in 1..Len(nodes) : StatedLevel(nodes[j].id, nodes, edges) = l}
                   k == Cardinality(row)
                   index == Cardinality({j \in row : j < i})
               IN  /\ ResultNodes(nodes[i].id) # {}
                   /\ \A j \in ResultNodes(nodes[i].id) :
                         /\ Result.nodes[j].position.y = l * 250
                         /\ 2 * (Result.nodes[j].position.x - index * 300)
                                = width - (k - 1) * 300

\* C13 witness: a layout was returned with three nodes in one row, 300 apart and
\* centred on width / 2 = 500.
C13_Witness ==
    /\ Called("applyHierarchicalLayout")
    /\ StatedWidth(layoutIn.options) = 1000
    /\ \E a, b, c \in 1..Len(Result.nodes) :
          /\ Result.nodes[a].position.y = Result.nodes[b].position.y
          /\ Result.nodes[b].position.y = Result.nodes[c].position.y
          /\ Result.nodes[a].position.x = 200
          /\ Result.nodes[b].position.x = 500
          /\ Result.nodes[c].position.x = 800

\* C16: a layout function returns the input edge list as it is and exactly one
\* record per input node, equal to the input's in everything but the position.
C16_OnlyPositionsReplaced ==
    ReturnedLayout =>
        /\ Result.edges = layoutIn.edges
        /\ Len(Result.nodes) = Len(layoutIn.nodes)
        /\ \A i \in 1..Len(layoutIn.nodes) :
              /\ Cardinality(ResultNodes(layoutIn.nodes[i].id)) = 1
              /\ \A j \in ResultNodes(layoutIn.nodes[i].id) :
                    /\ DOMAIN Result.nodes[j] = DOMAIN layoutIn.nodes[i]
                    /\ \A f \in DOMAIN layoutIn.nodes[i] \ {"position"} :
                          Result.nodes[j][f] = layoutIn.nodes[i][f]

\* C16 witness: a layout of at least two nodes and one edge was returned in which
\* some node has moved.
C16_Witness ==
    /\ ReturnedLayout
    /\ Len(layoutIn.nodes) >= 2
    /\ Len(layoutIn.edges) >= 1
    /\ \E j \in 1..Len(Result.nodes) : \E i \in 1..Len(layoutIn.nodes) :
          /\ Result.nodes[j].id = layoutIn.nodes[i].id
          /\ Result.nodes[j].position # layoutIn.nodes[i].position

\* some edge names, as source or target, an id no node has
Dangling(nodes, edges) ==
    \E j \in 1..Len(edges) :
        edges[j].source \notin idsOf(nodes) \/ edges[j].target \notin idsOf(nodes)

\* C17 (as stated): a layout entry point given a dangling edge fails with an
\* error and returns no layout.
C17_DanglingEdgeFails ==
    ( /\ layoutOut # <<>>
      /\ layoutOut[1].fn \in LayoutFunctions
      /\ Dangling(layoutIn.nodes, layoutIn.edges) )
    => "error" \in DOMAIN Result

\* C18 (as stated): with at least 2 nodes applyAutoLayout returns the
\* hierarchical layout for every acyclic graph and the force-directed one for
\* every cyclic graph.
C18_AcyclicTakesHierarchicalPath ==
    ( Called("applyAutoLayout") /\ Len(layoutIn.nodes) >= 2 ) =>
        IF CycleReachable(layoutIn.nodes, layoutIn.edges)
          THEN Result = applyForceDirectedLayout(layoutIn.nodes, layoutIn.edges,
                                                 layoutIn.options)
          ELSE Result = applyHierarchicalLayout(layoutIn.nodes, layoutIn.edges,
                                                layoutIn.options)

\* C18 (amended): with at least 2 nodes applyAutoLayout returns the hierarchical
\* layout for every graph with at least one edge and no cycle that a listed node
\* reaches, and the force-directed one for every other graph: the cyclic ones and
\* the ones without edges.
C18_AcyclicWithEdgesTakesHierarchicalPath ==
    ( Called("applyAutoLayout") /\ Len(layoutIn.nodes) >= 2 ) =>
        IF Len(layoutIn.edges) = 0 \/ CycleReachable(layoutIn.nodes, layoutIn.edges)
          THEN Result = applyForceDirectedLayout(layoutIn.nodes, layoutIn.edges,
                                                 layoutIn.options)
          ELSE Result = applyHierarchicalLayout(layoutIn.nodes, layoutIn.edges,
                                                layoutIn.options)

\* C18 witness: applyAutoLayout was called on at least 2 nodes without edges and
\* returned the force-directed layout, which is not the hierarchical one.
C18_Witness ==
    /\ Called("applyAutoLayout")
    /\ Len(layoutIn.nodes) >= 2
    /\ Len(layoutIn.edges) = 0
    /\ Result = applyForceDirectedLayout(layoutIn.nodes, layoutIn.edges, layoutIn.options)
    /\ Result # applyHierarchicalLayout(layoutIn.nodes, layoutIn.edges, layoutIn.options)

\* C19: applyHierarchicalLayout places a node that no root reaches at y = 0.
C19_UnreachedAtLevelZero ==
    Called("applyHierarchicalLayout") =>
        \A i \in 1..Len(layoutIn.nodes) :
            layoutIn.nodes[i].id
                \notin ReachableFrom(StatedRoots(layoutIn.nodes, layoutIn.edges),
                                     layoutIn.edges)
            => /\ ResultNodes(layoutIn.nodes[i].id) # {}
               /\ \A j \in ResultNodes(layoutIn.nodes[i].id) :
                     Result.nodes[j].position.y = 0

\* C19 witness: a layout was returned for a graph with a node no root reaches,
\* and with a node below the first row.
C19_Witness ==
    /\ Called("applyHierarchicalLayout")
    /\ \E i \in 1..Len(layoutIn.nodes) :
          layoutIn.nodes[i].id
              \notin ReachableFrom(StatedRoots(layoutIn.nodes, layoutIn.edges),
                                   layoutIn.edges)
    /\ \E j \in 1..Len(Result.nodes) : Result.nodes[j].position.y > 0

\* C14: isLayoutCluttered is true exactly when two nodes at different places of
\* the list have their centres less than 150 apart (dx^2 + dy^2 < 22500); a list
\* of fewer than 2 nodes is never cluttered.
C14_ClutteredIffPairCloserThan150 ==
    Called("isLayoutCluttered") =>
        /\ Result = (\E i, j \in 1..Len(layoutIn.nodes) :
                        /\ i # j
                        /\ (layoutIn.nodes[i].position.x - layoutIn.nodes[j].position.x)
                             * (layoutIn.nodes[i].position.x - layoutIn.nodes[j].position.x)
                           + (layoutIn.nodes[i].position.y - layoutIn.nodes[j].position.y)
                             * (layoutIn.nodes[i].position.y - layoutIn.nodes[j].position.y)
                           < 22500)
        /\ Len(layoutIn.nodes) < 2 => Result = FALSE

\* C14 witness: two nodes exactly 150 apart, at (0, 0) and (90, 120), were found
\* not cluttered.
C14_Witness ==
    /\ Called("isLayoutCluttered")
    /\ Len(layoutIn.nodes) = 2
    /\ layoutIn.nodes[1].position = Point(0, 0)
    /\ layoutIn.nodes[2].position = Point(90, 120)
    /\ Result = FALSE

\* C15: no layout function changes an object of its caller: after the call
\* every input node and edge object holds what it held before, and a returned
\* node whose position differs from its input's is an object the call created.
C15_InputsNotMutated ==
    layoutOut # <<>> =>
        /\ \A a \in 1..Len(layoutIn.heap) : Result.heap[a] = layoutIn.heap[a]
        /\ "nodes" \in DOMAIN Result =>
              \A j \in 1..Len(Result.nodes) : \A i \in 1..Len(layoutIn.nodes) :
                  ( /\ Result.heap[Result.nodes[j]].id = layoutIn.heap[layoutIn.nodes[i]].id
                    /\ Result.heap[Result.nodes[j]].position
                           # layoutIn.heap[layoutIn.nodes[i]].position )
                  => Result.nodes[j] > Len(layoutIn.heap)

\* C15 witness: a layout of at least two nodes and an edge was returned in which
\* a node has a new position.
C15_Witness ==
    /\ layoutOut # <<>>
    /\ "nodes" \in DOMAIN Result
    /\ Len(layoutIn.nodes) >= 2
    /\ Len(layoutIn.edges) >= 1
    /\ \E j \in 1..Len(Result.nodes) : \E i \in 1..Len(layoutIn.nodes) :
          /\ Result.heap[Result.nodes[j]].id = layoutIn.heap[layoutIn.nodes[i]].id
          /\ Result.heap[Result.nodes[j]].position
                 # layoutIn.heap[layoutIn.nodes[i]].position

(***************************************************************************)
(* Properties of the connection geometry.                                  *)
(***************************************************************************)
\* the points of the boundary of a box
BoundaryPoints(position, size) ==
    {Point(px, py) : px \in position.x..(position.x + size.width),
                     py \in {position.y, position.y + size.height}}
    \cup
    {Point(px, py) : px \in {position.x, position.x + size.width},
                     py \in position.y..(position.y + size.height)}

SquaredDistance(p, q) == (p.x - q.x) * (p.x - q.x) + (p.y - q.y) * (p.y - q.y)

\* C7 (as stated): the projection of a point is a boundary point of the box at
\* the least Euclidean distance from the point; (500, 25) projects to (100, 25) on
\* the box at (0, 0) of size (100, 50).
C7_ProjectionIsNearestBoundaryPoint ==
    geomOut # <<>> =>
        LET boundary == BoundaryPoints(geomIn.position, geomIn.size)
        IN  /\ geomOut[1] \in boundary
            /\ \A b \in boundary :
                   SquaredDistance(geomOut[1], geomIn.point)
                       <= SquaredDistance(b, geomIn.point)

\* C29: applyHierarchicalLayout gives the nodes of a graph with unique ids
\* pairwise distinct positions, whatever the edges are.
C29_DistinctPositions ==
    Called("applyHierarchicalLayout") =>
        \A i, j \in 1..Len(Result.nodes) :
            i # j => Result.nodes[i].position # Result.nodes[j].position

\* a rootless cycle A -> B -> A next to a node C that the search never reaches,
\* laid out on one row
C29_Witness ==
    /\ Called("applyHierarchicalLayout")
    /\ Len(layoutIn.nodes) = 3
    /\ rootNodesOf(layoutIn.nodes, layoutIn.edges) = <<LayoutNode(3)>>
    /\ \E e1, e2 \in 1..Len(layoutIn.edges) :
          /\ layoutIn.edges[e1].source = NodeName(1) /\ layoutIn.edges[e1].target = NodeName(2)
          /\ layoutIn.edges[e2].source = NodeName(2) /\ layoutIn.edges[e2].target = NodeName(1)
    /\ \A i \in 1..Len(Result.nodes) : Result.nodes[i].position.y = 0

\* C30 (as stated): every layout function returns the nodes in input order.
C30_InputOrderKept ==
    ReturnedLayout =>
        /\ Len(Result.nodes) = Len(layoutIn.nodes)
        /\ \A i \in 1..Len(Result.nodes) : Result.nodes[i].id = layoutIn.nodes[i].id

LoopDone ==
    CASE layoutIn.fn = "applyHierarchicalLayout" -> Len(layoutOut[1].queue) = 0
      [] layoutIn.fn = "isHierarchicalGraph" -> layoutOut[1].result # "running"
      [] layoutIn.fn = "applyForceDirectedLayout" ->
            layoutOut[1].i >= mergeOptions(layoutIn.options).iterations

NoRepeats(q) == \A a, b \in 1..Len(q) : a # b => q[a] # q[b]

\* at no point of a loop has a node been enqueued, or expanded, twice, or a tick
\* been made beyond `iterations`; a loop that is left has computed what the
\* function returns, after exactly `iterations` ticks
LoopWithinBudget ==
    CASE layoutIn.fn = "applyHierarchicalLayout" ->
            /\ NoRepeats(layoutOut[1].enqueued)
            /\ LoopDone => layoutOut[1].levels = assignLevels(layoutIn.nodes, layoutIn.edges)
      [] layoutIn.fn = "isHierarchicalGraph" ->
            /\ NoRepeats(layoutOut[1].expanded)
            /\ LoopDone => ( (layoutOut[1].result = "true")
                             = isHierarchicalGraph(layoutIn.nodes, layoutIn.edges) )
      [] layoutIn.fn = "applyForceDirectedLayout" ->
            /\ layoutOut[1].ticks <= mergeOptions(layoutIn.options).iterations
            /\ LoopDone =>
                 /\ layoutOut[1].ticks = mergeOptions(layoutIn.options).iterations
                 /\ layoutOut[1].layoutNodes =
                       runSimulation(ticksStart(layoutIn.nodes, layoutIn.edges).layoutNodes,
                                     mergeOptions(layoutIn.options), 0)

\* C24: on every graph whose edges reference existing nodes each layout loop
\* comes to its end: the BFS enqueues no node id twice, the cycle search expands
\* no node twice, and the force-directed layout makes exactly `iterations` ticks.
C24_LoopsTerminate == []LoopWithinBudget /\ <>LoopDone

\* the BFS over the rootless cycle A -> B -> C -> A has run to its end
C24_Witness ==
    /\ layoutIn.fn = "applyHierarchicalLayout"
    /\ Len(layoutIn.nodes) = 3
    /\ layoutIn.edges = << [source |-> NodeName(1), target |-> NodeName(2)],
                           [source |-> NodeName(2), target |-> NodeName(3)],
                           [source |-> NodeName(3), target |-> NodeName(1)] >>
    /\ LoopDone
    /\ layoutOut[1].enqueued = <<NodeName(1), NodeName(2), NodeName(3)>>

\* C22: handleAnchor returns the midpoint of the given side moved 16 units
\* outward, and 16 is the offset the rendered handle is positioned with
\* (8 + 16/2).
C22_AnchorIsSideMidpointMoved16 ==
    geomOut # <<>> =>
        LET x == geomIn.position.x
            y == geomIn.position.y
            w == geomIn.size.width
            h == geomIn.size.height
            a == geomOut[1].anchor
        IN  /\ geomIn.side = "top"    => 2 * a.x = 2 * x + w /\ a.y = y - 16
            /\ geomIn.side = "right"  => a.x = x + w + 16 /\ 2 * a.y = 2 * y + h
            /\ geomIn.side = "bottom" => 2 * a.x = 2 * x + w /\ a.y = y + h + 16
            /\ geomIn.side = "left"   => a.x = x - 16 /\ 2 * a.y = 2 * y + h
            /\ geomOut[1].style.px = 0 - 16
            /\ geomOut[1].style.inset = geomIn.side
            /\ 2 * 16 = 2 * 8 + geomOut[1].style.width

C22_Witness ==
    /\ geomOut # <<>>
    /\ geomIn.side = "left"
    /\ geomIn.position = Point(300, 0)
    /\ geomIn.size = [width |-> 192, height |-> 96]
    /\ geomOut[1].anchor = Point(284, 48)


====
